---- MODULE Spec2Model ----
(***************************************************************************)
(* Face-recognition attendance system: the attendance ledger               *)
(* (attendance_manager.py) and the matcher (face_recognition_system.py).   *)
(*                                                                         *)
(* Spec      sequential use of one AttendanceManager                       *)
(* SpecConc  two sessions marking attendance on the same directory         *)
(* SpecFace  gallery loading and recognize_faces                           *)
(***************************************************************************)
EXTENDS Integers, Sequences, FiniteSets, TLC

\* ---------------------------------------------------------------- bounds
MaxDay == 1       \* calendar days FirstDay .. FirstDay + MaxDay
MaxSec == 1       \* clock readings 0 .. MaxSec within one day
MaxCalls == 3     \* mark_attendance is called at most this many times
MaxImages == 2    \* image files per identity directory
MaxDist == 1      \* distances and thresholds 0 .. MaxDist
MaxFaces == 1     \* faces detected in one frame
MaxFrames == 1    \* recognize_faces is called at most this many times

\* ------------------------------------------------------------- constants
\* 'time': None of a failed save
NoTime == -1
\* the distance reported while the recognizer is not trained
Sentinel == 999
\* the modelled days of one month: "09", then "10", "11", ...
Days == 9..(9 + MaxDay)
FirstDay == CHOOSE d \in Days : \A e \in Days : d <= e
Secs == 0..MaxSec

\* Names handed to mark_attendance.  "123" is a name made of digits (a roll
\* number), "Alice" an ordinary one.
Names == {"Alice", "123"}
\* Text pandas' default type inference parses as a number.
NumericStrings == {"123"}
\* Text pandas' default na_values turn into NaN.
NAStrings == {"NA", ""}

\* SpecConc: the browser sessions, each with its own AttendanceManager
Sessions == {1, 2}
NoLoc == [name |-> "", file |-> FirstDay, df |-> <<>>, time |-> NoTime]

\* A cell of the Name column: text, a number (written by its numeral) or NaN.
StrCell(s) == [k |-> "str", v |-> s]
NumCell(s) == [k |-> "num", v |-> s]
NaNCell == [k |-> "nan", v |-> ""]

VARIABLES
    clock,            \* datetime.now(): [day, sec]
    today_file,       \* self.today_file: the day its path names
    files,            \* attendance_dir: day -> partition file
    res,              \* what the last ledger call returned
    calls,            \* mark_attendance calls started so far
    pc,               \* SpecConc: where each session's mark_attendance stands
    loc,              \* SpecConc: each session's local variables
    acked,            \* SpecConc: the records whose call returned success=True
    known_dir,        \* known_faces/ exists
    person_dirs,      \* known_faces/: name -> the image files of its directory
    known_face_names, \* self.known_face_names
    is_trained,       \* self.is_trained
    label_map,        \* self.label_map: label -> name
    model_labels,     \* the labels the recognizer was last trained on
    results,          \* what the last recognize_faces call returned
    frames,           \* recognize_faces calls made so far
    marked            \* SpecApp: the names the last processed frame passed
                      \* to mark_attendance, in call order

ledgerVars == <<clock, today_file, files, res, calls>>
concVars == <<pc, loc, acked>>
faceVars == <<known_dir, person_dirs, known_face_names, is_trained, label_map,
              model_labels, results, frames>>
appVars == <<marked>>
vars == <<ledgerVars, concVars, faceVars, appVars>>

\* ------------------------------------------------------- partition files
Absent == [exists |-> FALSE, ok |-> FALSE, rows |-> <<>>]
Good(rows) == [exists |-> TRUE, ok |-> TRUE, rows |-> rows]
\* a file a failed save left truncated: it exists and cannot be read
Damaged == [exists |-> TRUE, ok |-> FALSE, rows |-> <<>>]

NoRes == [op |-> "none", name |-> "", success |-> FALSE, time |-> NoTime,
          file |-> FirstDay, date |-> FirstDay, rows |-> <<>>, dates |-> <<>>,
          readFailed |-> FALSE, wr |-> "none"]

\* ---------------------------------------------------------------- clock
CanTick(c) == c.sec < MaxSec \/ c.day < FirstDay + MaxDay
TickOf(c) == IF c.sec < MaxSec THEN [c EXCEPT !.sec = c.sec + 1]
             ELSE [day |-> c.day + 1, sec |-> 0]

\* ----------------------------------------------------------- read_excel
\* sanitize_objects: a text cell holding an NA word becomes NaN
SanitizeCell(c) == IF c.k = "str" /\ c.v \in NAStrings THEN NaNCell ELSE c

\* maybe_convert_numeric succeeds on a column when every cell is a number,
\* NaN or text that parses as a number; then the whole column is numeric.
ColumnIsNumeric(rows) ==
    \A i \in 1..Len(rows) :
        LET c == SanitizeCell(rows[i].Name)
        IN  c.k \in {"num", "nan"} \/ (c.k = "str" /\ c.v \in NumericStrings)

InferCell(c, numeric) ==
    LET s == SanitizeCell(c)
    IN  IF numeric /\ s.k = "str" THEN NumCell(s.v) ELSE s

\* pd.read_excel(path) with default arguments: the Name column goes through
\* pandas' type inference; Date and Time texts are not numbers and stay.
ReadExcel(rows) ==
    [i \in 1..Len(rows) |->
        [rows[i] EXCEPT !.Name = InferCell(rows[i].Name, ColumnIsNumeric(rows))]]

\* The DataFrame the callers work on: the file's rows, or the empty frame
\* when the file is absent or read_excel raises.
LoadFrame(f, readOK) ==
    IF f.exists /\ f.ok /\ readOK THEN ReadExcel(f.rows) ELSE <<>>

\* read_excel was called and raised
ReadFailed(f, readOK) == f.exists /\ ~ (f.ok /\ readOK)

\* name in df['Name'].values, for a str name
NameIn(df, name) == \E i \in 1..Len(df) : df[i].Name = StrCell(name)

\* not df.empty and name in df['Name'].values
AlreadyMarked(df, name) == Len(df) > 0 /\ NameIn(df, name)

\* df[df['Name'] == name]['Time'].iloc[0]
ExistingTime(df, name) ==
    LET i == CHOOSE i \in 1..Len(df) :
                 /\ df[i].Name = StrCell(name)
                 /\ \A j \in 1..(i - 1) : df[j].Name # StrCell(name)
    IN  df[i].Time

\* pd.concat([df, new_record])
NewRecord(name, now) == [Name |-> StrCell(name), Date |-> now.day, Time |-> now.sec]
Concat(df, name, now) == Append(df, NewRecord(name, now))

\* df.to_excel(path): "ok" writes the frame; "fail_open" raises before the
\* file is opened; "fail_write" raises after it was opened for writing.
WriteOutcomes == {"ok", "fail_open", "fail_write"}
ToExcel(old, df, wr) ==
    CASE wr = "ok" -> Good(df)
      [] wr = "fail_open" -> old
      [] OTHER -> Damaged

\* --------------------------------------------------- reading the ledger
\* get_attendance_by_date / get_today_attendance: the frame returned
GetFrameUnguarded(f, readOK) == IF f.exists THEN ReadExcel(f.rows) ELSE <<>>
GetFrame(f, readOK) ==
    IF f.exists
    THEN IF f.ok /\ readOK THEN ReadExcel(f.rows) ELSE <<>>
    ELSE <<>>

\* strftime("%Y-%m-%d"), the part that varies: the day as two digits
DateStr(d) == <<d \div 10, d % 10>>
\* the day a date text names
DayOf(s) == 10 * s[1] + s[2]
\* str comparison: lexicographic, digit by digit
StrLess(a, b) == a[1] < b[1] \/ (a[1] = b[1] /\ a[2] < b[2])

RECURSIVE SortedAscending(_)
SortedAscending(S) ==
    IF S = {} THEN <<>>
    ELSE LET m == CHOOSE x \in S : \A y \in S \ {x} : StrLess(x, y)
         IN  <<m>> \o SortedAscending(S \ {m})

\* sorted(dates, reverse=True)
RECURSIVE SortedDescending(_)
SortedDescending(S) ==
    IF S = {} THEN <<>>
    ELSE LET m == CHOOSE x \in S : \A y \in S \ {x} : StrLess(y, x)
         IN  <<m>> \o SortedDescending(S \ {m})

\* attendance_dir.glob("Attendance_*.xlsx"), each stem less its prefix
GlobDates(fs) == {DateStr(d) : d \in {e \in Days : fs[e].exists}}

\* ------------------------------------------------------------ the ledger
\* the file to_excel writes: self.today_file, whatever the record's date
SaveTargetByDate(file, now) == now.day
SaveTarget(file, now) == file

\* ----------------------------------------------------------- the gallery
\* Names of enrolled people; a person may be called "Unknown".
PersonNames == {"Alice", "Unknown"}

\* iterdir(): the directories in some order
Orders(S) ==
    {o \in [1..Cardinality(S) -> S] :
        \A i, j \in 1..Cardinality(S) : i # j => o[i] # o[j]}

\* the images of a directory in which detectMultiScale finds a face
FacesIn(dir) == {img \in dir : img.face}

\* load_known_faces, directory present: current_label starts at 0 and is
\* incremented once per identity directory, after that directory's images
\* are read, so the i-th directory of the iteration gets label i - 1.
RECURSIVE LabelOfPerImage(_, _, _)
LabelOfPerImage(dirs, order, i) ==
    IF i = 1 THEN 0
    ELSE LabelOfPerImage(dirs, order, i - 1) + Cardinality(dirs[order[i - 1]])
LabelOf(dirs, order, i) == i - 1
\* label_map[current_label] = person_name, a later assignment to the same
\* key replacing an earlier one
NewLabelMap(dirs, order) ==
    LET idx == 1..Len(order)
    IN  [l \in {LabelOf(dirs, order, i) : i \in idx} |->
            order[CHOOSE i \in idx :
                     /\ LabelOf(dirs, order, i) = l
                     /\ \A j \in idx : LabelOf(dirs, order, j) = l => j <= i]]
\* labels.append(current_label), one training sample per image with a face
TrainLabels(dirs, order) ==
    {LabelOf(dirs, order, i) :
        i \in {k \in 1..Len(order) : FacesIn(dirs[order[k]]) # {}}}
RECURSIVE LoadedNames(_, _, _)
LoadedNames(dirs, order, i) ==
    IF i > Len(order) THEN <<>>
    ELSE [k \in 1..Cardinality(FacesIn(dirs[order[i]])) |-> order[i]]
             \o LoadedNames(dirs, order, i + 1)

\* self.label_map.get(label, "Unknown")
LabelMapGet(map, label) ==
    IF label \in DOMAIN map THEN map[label] ELSE "Unknown"

\* distance < confidence_threshold
AcceptsInclusive(distance, threshold) == distance <= threshold
Accepts(distance, threshold) == distance < threshold

\* confidences are fractions num / den, den > 0
Zero == [num |-> 0, den |-> 1]
\* max(0, 1 - distance / confidence_threshold), for distance < threshold
Confidence(distance, threshold) ==
    IF threshold - distance <= 0 THEN Zero
    ELSE [num |-> threshold - distance, den |-> threshold]

\* one entry of recognize_faces' result
FaceResultAlwaysPredicts(trained, map, pred, threshold) ==
    IF Accepts(pred.distance, threshold)
    THEN [name |-> LabelMapGet(map, pred.label),
          confidence |-> Confidence(pred.distance, threshold),
          distance |-> pred.distance, label |-> pred.label]
    ELSE [name |-> "Unknown", confidence |-> Zero,
          distance |-> pred.distance, label |-> pred.label]
FaceResult(trained, map, pred, threshold) ==
    IF trained /\ Accepts(pred.distance, threshold)
    THEN [name |-> LabelMapGet(map, pred.label),
          confidence |-> Confidence(pred.distance, threshold),
          distance |-> pred.distance, label |-> pred.label]
    ELSE [name |-> "Unknown", confidence |-> Zero,
          distance |-> IF trained THEN pred.distance ELSE Sentinel,
          label |-> pred.label]

NoResults == [threshold |-> 0, trained |-> FALSE, faces |-> <<>>]

FaceInit ==
    /\ known_dir = TRUE
    /\ person_dirs = [n \in {} |-> {}]
    /\ known_face_names = <<>>
    /\ is_trained = FALSE
    /\ label_map = [l \in {} |-> "Unknown"]
    /\ model_labels = {}
    /\ results = NoResults
    /\ frames = 0

Init ==
    /\ clock = [day |-> FirstDay, sec |-> 0]
    /\ today_file = FirstDay
    /\ files = [d \in Days |-> Absent]
    /\ res = NoRes
    /\ calls = 0
    /\ pc = [p \in Sessions |-> "idle"]
    /\ loc = [p \in Sessions |-> NoLoc]
    /\ acked = <<>>
    /\ FaceInit
    /\ marked = <<>>

Tick ==
    /\ CanTick(clock)
    /\ clock' = TickOf(clock)
    /\ UNCHANGED <<today_file, files, res, calls, concVars, appVars, faceVars>>

\* the ledger part of the state, as mark_attendance finds and leaves it
Ledger ==
    [clock |-> clock, today_file |-> today_file, files |-> files,
     res |-> res, calls |-> calls]

\* mark_attendance(name) on the ledger L.  adv: the clock moves between
\* update_today_file's reading of it and the reading that stamps the record.
MarkEffect(L, name, readOK, wr, adv) ==
    LET file == L.clock.day
        now == IF adv THEN TickOf(L.clock) ELSE L.clock
        df == LoadFrame(L.files[file], readOK)
    IN  IF AlreadyMarked(df, name)
        THEN [clock |-> now, today_file |-> file, files |-> L.files,
              calls |-> L.calls + 1,
              res |-> [NoRes EXCEPT !.op = "mark", !.name = name,
                           !.success = FALSE, !.time = ExistingTime(df, name),
                           !.file = file, !.date = now.day,
                           !.readFailed = ReadFailed(L.files[file], readOK)]]
        ELSE [clock |-> now, today_file |-> file,
              files |-> [L.files EXCEPT ![SaveTarget(file, now)] =
                            ToExcel(@, Concat(df, name, now), wr)],
              calls |-> L.calls + 1,
              res |-> [NoRes EXCEPT !.op = "mark", !.name = name,
                           !.success = (wr = "ok"),
                           !.time = IF wr = "ok" THEN now.sec ELSE NoTime,
                           !.file = file, !.date = now.day,
                           !.readFailed = ReadFailed(L.files[file], readOK),
                           !.wr = wr]]

\* the inputs are admissible: the clock can tick, the call bound is not reached
MarkEnabled(L, adv) == (adv => CanTick(L.clock)) /\ L.calls < MaxCalls

\* the ledger variables become those of L
LedgerBecomes(L) ==
    /\ clock' = L.clock
    /\ today_file' = L.today_file
    /\ files' = L.files
    /\ res' = L.res
    /\ calls' = L.calls

MarkAttendance(name, readOK, wr, adv) ==
    /\ MarkEnabled(Ledger, adv)
    /\ LedgerBecomes(MarkEffect(Ledger, name, readOK, wr, adv))
    /\ UNCHANGED <<concVars, appVars, faceVars>>

\* get_attendance_by_date(date)
GetAttendanceByDate(date, readOK) ==
    /\ res' = [NoRes EXCEPT !.op = "by_date", !.file = date,
                   !.readFailed = ReadFailed(files[date], readOK),
                   !.rows = GetFrame(files[date], readOK)]
    /\ UNCHANGED <<clock, today_file, files, calls, concVars, appVars, faceVars>>

\* get_today_attendance()
GetTodayAttendance(readOK) ==
    /\ today_file' = clock.day
    /\ res' = [NoRes EXCEPT !.op = "today", !.file = clock.day,
                   !.readFailed = ReadFailed(files[clock.day], readOK),
                   !.rows = GetFrame(files[clock.day], readOK)]
    /\ UNCHANGED <<clock, files, calls, concVars, appVars, faceVars>>

\* get_all_attendance_dates()
GetAllAttendanceDates ==
    /\ res' = [NoRes EXCEPT !.op = "dates",
                   !.dates = SortedDescending(GlobDates(files))]
    /\ UNCHANGED <<clock, today_file, files, calls, concVars, appVars, faceVars>>

Next ==
    \/ Tick
    \/ \E name \in Names, readOK \in BOOLEAN, wr \in WriteOutcomes, adv \in BOOLEAN :
           MarkAttendance(name, readOK, wr, adv)
    \/ \E date \in Days, readOK \in BOOLEAN : GetAttendanceByDate(date, readOK)
    \/ \E readOK \in BOOLEAN : GetTodayAttendance(readOK)
    \/ GetAllAttendanceDates

Spec == Init /\ [][Next]_vars

\* ------------------------------------------------- concurrent sessions
\* Two browser sessions, each holding its own AttendanceManager on the same
\* attendance directory, run mark_attendance; nothing orders the read of
\* one against the save of the other.  Reads and saves succeed here.
ConcNames == {"Alice", "Bob"}

\* mark_attendance, up to the duplicate check and the concat
MarkBegin(p, name) ==
    LET file == clock.day
        df == LoadFrame(files[file], TRUE)
    IN  /\ pc[p] = "idle"
        /\ calls < MaxCalls
        /\ calls' = calls + 1
        /\ IF AlreadyMarked(df, name)
           THEN UNCHANGED <<pc, loc>>
           ELSE /\ pc' = [pc EXCEPT ![p] = "save"]
                /\ loc' = [loc EXCEPT ![p] =
                               [name |-> name, file |-> file,
                                df |-> Concat(df, name, clock), time |-> clock.sec]]
        /\ UNCHANGED <<clock, today_file, files, res, acked, faceVars, appVars>>

\* mark_attendance, the save and the success result
MarkSave(p) ==
    /\ pc[p] = "save"
    /\ files' = [files EXCEPT ![loc[p].file] = ToExcel(@, loc[p].df, "ok")]
    /\ acked' = Append(acked, [name |-> loc[p].name, date |-> loc[p].file,
                                time |-> loc[p].time])
    /\ pc' = [pc EXCEPT ![p] = "idle"]
    /\ loc' = [loc EXCEPT ![p] = NoLoc]
    /\ UNCHANGED <<clock, today_file, res, calls, faceVars, appVars>>

ConcNext ==
    \/ Tick
    \/ \E p \in Sessions, name \in ConcNames : MarkBegin(p, name)
    \/ \E p \in Sessions : MarkSave(p)

SpecConc == Init /\ [][ConcNext]_vars

\* ------------------------------------------------------------ the matcher
\* load_known_faces() over the directory tree dirs, read in the order given
Reload(exists, dirs, order) ==
    IF ~ exists
    THEN /\ known_dir' = TRUE
         /\ person_dirs' = [n \in {} |-> {}]
         /\ known_face_names' = <<>>
         /\ UNCHANGED <<is_trained, label_map, model_labels>>
    ELSE /\ known_dir' = TRUE
         /\ person_dirs' = dirs
         /\ known_face_names' = LoadedNames(dirs, order, 1)
         /\ IF TrainLabels(dirs, order) # {}
            THEN /\ is_trained' = TRUE
                 /\ label_map' = NewLabelMap(dirs, order)
                 /\ model_labels' = TrainLabels(dirs, order)
            ELSE /\ is_trained' = FALSE
                 /\ UNCHANGED <<label_map, model_labels>>

LoadKnownFaces ==
    /\ \E order \in Orders(DOMAIN person_dirs) :
           Reload(known_dir, person_dirs, order)
    /\ UNCHANGED <<ledgerVars, concVars, appVars, results, frames>>

\* the directory name is there after person_dir.mkdir(parents=True)
WithDir(dirs, name) ==
    [n \in DOMAIN dirs \cup {name} |-> IF n \in DOMAIN dirs THEN dirs[n] ELSE {}]

\* len(list(person_dir.glob('*.jpg'))) + 1 and len(list(person_dir.glob('*'))) + 1:
\* the directory holds only the .jpg files the two enrollment functions write
ImageCountNoIncrement(dir) == Cardinality(dir)
ImageCount(dir) == Cardinality(dir) + 1

\* writing <n>.jpg into the directory of name replaces a file of that name
StoreSample(dirs, name, n) ==
    [dirs EXCEPT ![name] =
        {img \in @ : img.n # n} \cup {[n |-> n, face |-> TRUE]}]

\* the value the enrollment functions return
SaveFaceFromFrameReturns(hasFace) == hasFace
AddNewFaceReturns(loadable, hasFace) == loadable /\ hasFace

\* save_face_from_frame(name, frame); hasFace: a face is found in the frame
SaveFaceFromFrame(name, hasFace) ==
    LET dirs == WithDir(IF known_dir THEN person_dirs ELSE [n \in {} |-> {}], name)
        image_count == ImageCount(dirs[name])
        saved == StoreSample(dirs, name, image_count)
    IN  /\ image_count <= MaxImages
        /\ IF ~ SaveFaceFromFrameReturns(hasFace)
           THEN /\ known_dir' = TRUE
                /\ person_dirs' = dirs
                /\ UNCHANGED <<known_face_names, is_trained, label_map, model_labels>>
           ELSE \E order \in Orders(DOMAIN saved) : Reload(TRUE, saved, order)
        /\ UNCHANGED <<ledgerVars, concVars, appVars, results, frames>>

\* add_new_face(name, image_path); loadable: cv2.imread returns an image,
\* hasFace: a face is found in it
AddNewFace(name, loadable, hasFace) ==
    LET dirs == WithDir(IF known_dir THEN person_dirs ELSE [n \in {} |-> {}], name)
        image_count == ImageCount(dirs[name])
        copied == StoreSample(dirs, name, image_count)
    IN  /\ image_count <= MaxImages
        /\ IF ~ AddNewFaceReturns(loadable, hasFace)
           THEN /\ known_dir' = TRUE
                /\ person_dirs' = dirs
                /\ UNCHANGED <<known_face_names, is_trained, label_map, model_labels>>
           ELSE \E order \in Orders(DOMAIN copied) : Reload(TRUE, copied, order)
        /\ UNCHANGED <<ledgerVars, concVars, appVars, results, frames>>

\* known_faces/ is deleted by hand while the application runs
RemoveKnownFaces ==
    /\ known_dir
    /\ known_dir' = FALSE
    /\ person_dirs' = [n \in {} |-> {}]
    /\ UNCHANGED <<ledgerVars, concVars, appVars, known_face_names, is_trained, label_map,
                   model_labels, results, frames>>

\* what face_recognizer.predict may return for the faces of one frame
Predictions ==
    LET labels == IF is_trained THEN model_labels ELSE {0}
        dists == IF is_trained THEN 0..MaxDist ELSE {0}
    IN  UNION {[1..n -> [label : labels, distance : dists]] : n \in 0..MaxFaces}

\* recognize_faces(frame, confidence_threshold)
RecognizeFaces(threshold, preds) ==
    /\ frames < MaxFrames
    /\ frames' = frames + 1
    /\ results' = [threshold |-> threshold, trained |-> is_trained,
                   faces |-> [i \in 1..Len(preds) |->
                       FaceResult(is_trained, label_map, preds[i], threshold)]]
    /\ UNCHANGED <<ledgerVars, concVars, appVars, known_dir, person_dirs, known_face_names,
                   is_trained, label_map, model_labels>>

FaceNext ==
    \/ LoadKnownFaces
    \/ \E name \in PersonNames, hasFace \in BOOLEAN : SaveFaceFromFrame(name, hasFace)
    \/ \E name \in PersonNames, loadable, hasFace \in BOOLEAN :
           AddNewFace(name, loadable, hasFace)
    \/ RemoveKnownFaces
    \/ \E threshold \in 0..MaxDist, preds \in Predictions :
           RecognizeFaces(threshold, preds)

SpecFace == Init /\ [][FaceNext]_vars

\* ---- the attendance page: one session's frame loop ----

\* recognize_faces' default confidence_threshold
DefaultThreshold == 100
\* LBPH distances on either side of the two comparisons a frame goes
\* through: distance < 100 and 1 - distance/100 > 0.5
FrameDistances == {49, 50, 100}

\* what face_recognizer.predict may return for the faces of a camera frame
FramePredictions ==
    LET labels == IF is_trained THEN model_labels ELSE {0}
        dists == IF is_trained THEN FrameDistances ELSE {0}
    IN  UNION {[1..n -> [label : labels, distance : dists]] : n \in 0..MaxFaces}

\* result['name'] != "Unknown" and result['confidence'] > 0.5
QualifiesWithoutConfidence(r) == r.name # "Unknown"
Qualifies(r) == r.name # "Unknown" /\ 2 * r.confidence.num > r.confidence.den

\* what mark_attendance is given on one call
MarkInputs == [readOK : BOOLEAN, wr : WriteOutcomes, adv : BOOLEAN]

\* the results of a frame that lead to a mark_attendance call
Calls(faces) == SelectSeq(faces, Qualifies)

\* for result in face_results: mark_attendance for the results that qualify,
\* from the i-th such call on; ins[i] are the inputs of the i-th call.
\* ok: the inputs of every call made were admissible.
RECURSIVE MarkAll(_, _, _, _)
MarkAll(L, faces, ins, i) ==
    IF i > Len(Calls(faces)) THEN [ledger |-> L, marked |-> <<>>, ok |-> TRUE]
    ELSE IF ~ MarkEnabled(L, ins[i].adv)
    THEN [ledger |-> L, marked |-> <<>>, ok |-> FALSE]
    ELSE LET name == Calls(faces)[i].name
             rest == MarkAll(MarkEffect(L, name, ins[i].readOK, ins[i].wr, ins[i].adv),
                             faces, ins, i + 1)
         IN  [ledger |-> rest.ledger,
              marked |-> <<name>> \o rest.marked,
              ok |-> rest.ok]

\* the results recognize_faces(frame) returns for the predictions preds
FrameResults(preds) ==
    [i \in 1..Len(preds) |->
        FaceResult(is_trained, label_map, preds[i], DefaultThreshold)]

\* one processed frame: recognize_faces(frame), then the loop over its results
ProcessFrame(preds, ins) ==
    LET faces == FrameResults(preds)
        done == MarkAll(Ledger, faces, ins, 1)
    IN  /\ frames < MaxFrames
        /\ done.ok
        /\ frames' = frames + 1
        /\ results' = [threshold |-> DefaultThreshold, trained |-> is_trained,
                       faces |-> faces]
        /\ LedgerBecomes(done.ledger)
        /\ marked' = done.marked
        /\ UNCHANGED <<concVars, known_dir, person_dirs, known_face_names,
                       is_trained, label_map, model_labels>>

\* the galleries a session may find on disk when it starts: each identity
\* directory is missing or holds 1.jpg
GalleryDisks ==
    UNION {[S -> {{[n |-> 1, face |-> TRUE]}}] : S \in SUBSET PersonNames}

\* FaceRecognitionSystem(): is_trained = False, then load_known_faces()
AppFaceInit ==
    \E dirs \in GalleryDisks : \E order \in Orders(DOMAIN dirs) :
        /\ known_dir = TRUE
        /\ person_dirs = dirs
        /\ known_face_names = LoadedNames(dirs, order, 1)
        /\ is_trained = (TrainLabels(dirs, order) # {})
        /\ label_map = IF TrainLabels(dirs, order) # {}
                       THEN NewLabelMap(dirs, order) ELSE [l \in {} |-> "Unknown"]
        /\ model_labels = TrainLabels(dirs, order)
        /\ results = NoResults
        /\ frames = 0

AppInit ==
    /\ clock = [day |-> FirstDay, sec |-> 0]
    /\ today_file = FirstDay
    /\ files = [d \in Days |-> Absent]
    /\ res = NoRes
    /\ calls = 0
    /\ pc = [p \in Sessions |-> "idle"]
    /\ loc = [p \in Sessions |-> NoLoc]
    /\ acked = <<>>
    /\ AppFaceInit
    /\ marked = <<>>

AppNext ==
    \/ Tick
    \/ \E preds \in FramePredictions :
           \E ins \in [1..Len(Calls(FrameResults(preds))) -> MarkInputs] :
               ProcessFrame(preds, ins)

SpecApp == AppInit /\ [][AppNext]_vars

\* ------------------------------------------------ the ledger's properties
\* a step that is a mark_attendance call
MarkStep == calls' = calls + 1

\* The records get_attendance_by_date returns for a partition that reads
\* well, each by its name's text, its date and its time.
RecordsOf(f) ==
    LET df == GetFrame(f, TRUE)
    IN  {[name |-> df[i].Name.v, date |-> df[i].Date, time |-> df[i].Time] :
            i \in 1..Len(df)}
AllRecords == UNION {RecordsOf(files[d]) : d \in Days}

\* C1: every date partition holds each name at most once.
C1_LedgerUniqueness ==
    \A d \in Days :
        LET df == GetFrame(files[d], TRUE)
        IN  \A i, j \in 1..Len(df) : i # j => df[i].Name # df[j].Name

\* C2: a mark_attendance(name) call that meets no storage failure, made on a
\* calendar date on which an earlier call already recorded the name at t1,
\* returns success=False with time t1 and leaves that one record in place.
C2_FirstWriterWins ==
    [][\A d \in Days, t1 \in Secs :
          ( /\ MarkStep
            /\ ~ res'.readFailed
            /\ res'.wr \in {"ok", "none"}
            /\ files[d].ok
            /\ \E i \in 1..Len(files[d].rows) :
                   files[d].rows[i] =
                       NewRecord(res'.name, [day |-> res'.date, sec |-> t1]) )
          => ( /\ res'.success = FALSE
               /\ res'.time = t1
               /\ files' = files )]_vars

\* C3: a record a successful mark_attendance call persisted stays in its
\* partition, with its time, through every later call.
C3_AppendOnly ==
    [][\A d \in Days : RecordsOf(files[d]) \subseteq RecordsOf(files'[d])]_vars

\* C5: a mark_attendance call made on date D1 leaves the partition of every
\* other date as it was.
C5_OtherDatesUntouched ==
    [][MarkStep => \A d \in Days \ {clock.day} : files'[d] = files[d]]_vars

\* a name was marked with success while another date's partition, holding
\* records, has none for that name
C5_Witness ==
    /\ res.op = "mark" /\ res.success
    /\ \E d \in Days \ {res.file} :
           /\ RecordsOf(files[d]) # {}
           /\ \A r \in RecordsOf(files[d]) : r.name # res.name

\* C6: when the save fails, mark_attendance returns success=False with
\* time=None and the partition holds what it held before the call.
C6_WriteFailureKeepsPartition ==
    [][(MarkStep /\ res'.wr \in {"fail_open", "fail_write"})
          => ( /\ res'.success = FALSE
               /\ res'.time = NoTime
               /\ \A d \in Days : RecordsOf(files'[d]) = RecordsOf(files[d]) )]_vars

\* C7: get_attendance_by_date / get_today_attendance return the empty frame
\* when the partition is absent or cannot be read, and change no partition.
C7_ReadDegradesToEmpty ==
    [][(res'.op \in {"by_date", "today"} /\ res' # res)
          => /\ files' = files
             /\ (~ files[res'.file].exists \/ res'.readFailed)
                    => res'.rows = <<>>]_vars

\* a partition with records was asked for and could not be read
C7_Witness ==
    /\ res.op = "by_date" /\ res.readFailed /\ res.rows = <<>>
    /\ RecordsOf(files[res.file]) # {}

\* C8: get_all_attendance_dates returns the dates whose partition exists,
\* each once, most recent first.
C8_DatesDescending ==
    res.op = "dates" =>
        /\ {res.dates[i] : i \in 1..Len(res.dates)} =
               {DateStr(d) : d \in {e \in Days : files[e].exists}}
        /\ Len(res.dates) = Cardinality({e \in Days : files[e].exists})
        /\ \A i, j \in 1..Len(res.dates) :
               i < j => DayOf(res.dates[i]) > DayOf(res.dates[j])

\* several partitions were listed
C8_Witness == res.op = "dates" /\ Len(res.dates) >= 2

\* C9: every successful mark_attendance call for a (name, date) pair not yet
\* recorded adds exactly its record to what the partitions read back as, and
\* loses or alters none of the records written before.
C9_RoundTrip ==
    [][( /\ MarkStep
         /\ res'.success
         /\ ~ \E r \in AllRecords : r.name = res'.name /\ r.date = res'.date )
          => AllRecords' = AllRecords \cup
                 {[name |-> res'.name, date |-> res'.date, time |-> res'.time]}]_vars

\* C4: calls on the same date are serialized: once no call is in flight,
\* every record whose call returned success=True is in its partition, and
\* no two calls for the same name on one date both returned success=True.
C4_PerDateSerialization ==
    (\A p \in Sessions : pc[p] = "idle") =>
        /\ \A i \in 1..Len(acked) : acked[i] \in RecordsOf(files[acked[i].date])
        /\ \A i, j \in 1..Len(acked) :
               (i # j /\ acked[i].date = acked[j].date)
                   => acked[i].name # acked[j].name

\* ----------------------------------------------- the matcher's properties
\* C10: on a trained gallery a face is accepted, its name taken from the
\* label map, exactly when its distance is below the threshold; at a distance
\* equal to the threshold it is "Unknown" with confidence 0.
C10_ThresholdBoundary ==
    [][(frames' = frames + 1 /\ results'.trained) =>
          \A i \in 1..Len(results'.faces) :
              LET r == results'.faces[i]
                  t == results'.threshold
              IN  /\ r.distance < t =>
                      /\ r.name = LabelMapGet(label_map, r.label)
                      /\ r.confidence = [num |-> t - r.distance, den |-> t]
                  /\ r.distance >= t =>
                      /\ r.name = "Unknown"
                      /\ r.confidence = Zero]_vars

\* a face at a distance equal to a positive threshold was rejected
C10_Witness ==
    /\ results.trained
    /\ \E i \in 1..Len(results.faces) :
           /\ results.threshold > 0
           /\ results.faces[i].distance = results.threshold
           /\ results.faces[i].name = "Unknown"
           /\ LabelMapGet(label_map, results.faces[i].label) # "Unknown"

\* C11: while is_trained is false, recognize_faces reports every detected
\* face as "Unknown" with confidence 0 and the sentinel distance.
C11_UntrainedAllUnknown ==
    [][(frames' = frames + 1 /\ ~ is_trained) =>
          \A i \in 1..Len(results'.faces) :
              /\ results'.faces[i].name = "Unknown"
              /\ results'.faces[i].confidence = Zero
              /\ results'.faces[i].distance = Sentinel]_vars

\* a face was detected by an untrained system, under a positive threshold
C11_Witness ==
    /\ ~ results.trained
    /\ results.threshold > 0
    /\ Len(results.faces) > 0
    /\ results.faces[1].name = "Unknown"

\* C12: is_trained is true only if the gallery last loaded holds a training
\* sample: is_trained is false whenever known_face_names is empty.
C12_TrainedOnlyWithSamples == is_trained => Len(known_face_names) > 0

\* C15: every record stored in the partition file of date D has Date = D.
C15_PartitionDateConsistency ==
    \A d \in Days : \A i \in 1..Len(files[d].rows) : files[d].rows[i].Date = d

\* C17: every result's confidence lies in [0, 1]; a result with a name other
\* than "Unknown" has confidence 1 - distance/threshold > 0, and a result
\* named "Unknown" has confidence exactly 0.
C17_ResultConsistency ==
    [][frames' = frames + 1 =>
          \A i \in 1..Len(results'.faces) :
              LET r == results'.faces[i]
                  t == results'.threshold
              IN  /\ 0 <= r.confidence.num /\ r.confidence.num <= r.confidence.den
                  /\ r.name # "Unknown" =>
                         /\ r.confidence = [num |-> t - r.distance, den |-> t]
                         /\ r.confidence.num > 0
                  /\ r.name = "Unknown" => r.confidence = Zero]_vars

\* C13: whenever is_trained is true, every training sample's label is a key
\* of label_map, no name is the value of two labels, and the labels in use
\* are exactly 0..k-1 for the k identities of the map.
C13_GalleryLabels ==
    is_trained =>
        /\ model_labels \subseteq DOMAIN label_map
        /\ \A l, m \in DOMAIN label_map : label_map[l] = label_map[m] => l = m
        /\ DOMAIN label_map = 0..(Cardinality(DOMAIN label_map) - 1)

\* a trained gallery of two identities, the first of them with two samples
C13_Witness ==
    /\ is_trained
    /\ Cardinality(DOMAIN label_map) = 2
    /\ model_labels = {0, 1}
    /\ Len(known_face_names) = 3
    /\ known_face_names[2] = label_map[0]

\* the identity directory of name as an enrollment call finds it
DirBefore(name) ==
    IF known_dir /\ name \in DOMAIN person_dirs THEN person_dirs[name] ELSE {}

\* the step is an enrollment call for name that returns True / False
\* (an enrollment call is no recognize_faces call: frames stays)
EnrollsOK(name) ==
    /\ frames' = frames
    /\ \/ SaveFaceFromFrame(name, TRUE)
       \/ AddNewFace(name, TRUE, TRUE)
EnrollFails(name) ==
    /\ frames' = frames
    /\ \/ SaveFaceFromFrame(name, FALSE)
       \/ \E loadable, hasFace \in BOOLEAN :
              ~ AddNewFaceReturns(loadable, hasFace) /\ AddNewFace(name, loadable, hasFace)

\* C16: a successful add_new_face or save_face_from_frame call for a name
\* whose directory holds n - 1 images stores n.jpg and keeps the others, so
\* that the directory then holds exactly the n files 1.jpg .. n.jpg.
C16_EnrollmentNeverOverwrites ==
    [][\A name \in PersonNames :
          EnrollsOK(name) =>
              LET old == DirBefore(name)
                  new == person_dirs'[name]
                  n   == Cardinality(old) + 1
              IN  /\ old \subseteq new
                  /\ new \ old = {[n |-> n, face |-> TRUE]}
                  /\ {img.n : img \in new} = 1..n
                  /\ Cardinality(new) = n]_vars

\* an identity directory filled by two successful enrollments
C16_Witness ==
    /\ known_dir
    /\ \E name \in DOMAIN person_dirs : {img.n : img \in person_dirs[name]} = {1, 2}

\* C18: an enrollment call that returns False leaves the gallery on disk as
\* it was: no identity directory and no image file is created.
C18_FailedEnrollmentNoEffect ==
    [][\A name \in PersonNames :
          EnrollFails(name) =>
              /\ known_dir' = known_dir
              /\ person_dirs' = person_dirs]_vars

Confident(r) == r.name # "Unknown" /\ 2 * r.confidence.num > r.confidence.den

====
